---- MODULE Spec2Model ----
(***************************************************************************)
(* Experiment tracker and optimization job of the Quantum Portfolio        *)
(* Optimizer backend (backend/app/services/experiment_tracker.py,          *)
(* backend/app/routes/optimize.py and the solver adapters it calls).       *)
(*                                                                         *)
(* Spec     : the ExperimentTracker API called in any order by any caller. *)
(* SpecJob  : run_optimization requests and the run_optimization_task jobs *)
(*            they dispatch, interleaved step by step.                     *)
(* FairJob  : SpecJob with weak fairness on the steps of a dispatched job. *)
(* SpecCalc : the pure functions (weight decoding and normalisation, the   *)
(*            QUBO variables and grid, the Ising conversion, the           *)
(*            reproducibility hash) applied to inputs from bounded sets.   *)
(***************************************************************************)
EXTENDS Integers, Sequences, FiniteSets, TLC

\* ------------------------------------------------------------------ bounds
MaxExperiments == 2
MaxResults == 2
MaxTime == 1
MaxAssets == 2
MaxDiscretization == 2
MaxReads == 2
MaxPeriods == 3
MaxPortfolios == 2

\* ------------------------------------------------------------ Python values
\* Python None, where the field is a string or a dict.
None == "None"
\* A DateTime / Float column that holds NULL.
NoTime == 0 - 1
\* The empty dict {} passed as results on the failure paths.
EmptyDict == "{}"
\* Python truthiness, as used by `not error_message` and `and results`.
Truthy(v) == v \notin {None, "", EmptyDict}

Statuses == {"pending", "running", "completed", "failed"}
SolverTypes == {"classical", "qubo", "qaoa"}

VARIABLES
    experiments,   \* table experiments: a sequence, the id is the index
    results,       \* table results: the rows in insertion order
    now,           \* time.time()
    lastCall,      \* the last tracker call made at the API and how it ended
    env,           \* which solver libraries this installation has
    jobs,          \* run_optimization_task per experiment id
    calc           \* the pure function being evaluated: arguments and value

vars == <<experiments, results, now, lastCall, env, jobs, calc>>

\* ------------------------------------------------------------------ models
\* Experiment row as create_experiment builds it.
Experiment ==
    [status |-> "pending", started_at |-> NoTime,
     completed_at |-> NoTime, runtime_seconds |-> NoTime, error_message |-> None]

\* Result row: the experiment it belongs to and the payload it was built from.
Result(id, payload) == [experiment_id |-> id, payload |-> payload]

ResultsOf(id) == {k \in DOMAIN results : results[k].experiment_id = id}

\* ------------------------------------------------------- ExperimentTracker
\* A create that writes over the newest row, handing its id out again.
CreateExperimentOpReusing(exps, commitOk) ==
    IF commitOk /\ exps # <<>>
    THEN [exps EXCEPT ![Len(exps)] = Experiment]
    ELSE IF commitOk THEN Append(exps, Experiment) ELSE exps

\* create_experiment: the commit either adds the pending row or raises.
CreateExperimentOp(exps, commitOk) ==
    IF commitOk THEN Append(exps, Experiment) ELSE exps

\* start_experiment: no status guard; a missing row or a failed commit is
\* swallowed (rollback, no raise).
StartWrites(exps, id, commitOk) == id \in DOMAIN exps /\ commitOk

\* A start whose query has no id filter: it writes every row.
StartExperimentOpAll(exps, id, t, commitOk) ==
    IF StartWrites(exps, id, commitOk)
    THEN [i \in DOMAIN exps |-> [exps[i] EXCEPT !.status = "running", !.started_at = t]]
    ELSE exps

StartExperimentOp(exps, id, t, commitOk) ==
    IF StartWrites(exps, id, commitOk)
    THEN [exps EXCEPT ![id].status = "running", ![id].started_at = t]
    ELSE exps

\* complete_experiment raises on a missing row (ValueError) and on any
\* failure while persisting: the except block rolls back and re-raises.
CompleteRaisesSwallowed(exps, id, commitOk) == id \notin DOMAIN exps

CompleteRaises(exps, id, commitOk) == id \notin DOMAIN exps \/ ~commitOk

\* experiment.status = "completed" if not error_message else "failed"
CompleteStatus(error_message) ==
    IF ~Truthy(error_message) THEN "completed" ELSE "failed"

\* if not error_message and results: db.add(Result(...))
SavesResult(payload, error_message) == ~Truthy(error_message) /\ Truthy(payload)

\* A variant that updates the row only on the success path.
CompleteExperimentExpsOnSuccessOnly(exps, id, t, runtime, error_message, commitOk) ==
    IF CompleteRaises(exps, id, commitOk) \/ Truthy(error_message)
    THEN exps
    ELSE [exps EXCEPT ![id].status = "completed",
                      ![id].completed_at = t,
                      ![id].runtime_seconds = runtime,
                      ![id].error_message = error_message]

\* A variant without the rollback: the row keeps what was assigned to it
\* although the commit failed.
CompleteExperimentExpsNoRollback(exps, id, t, runtime, error_message, commitOk) ==
    IF id \notin DOMAIN exps
    THEN exps
    ELSE [exps EXCEPT ![id].status = CompleteStatus(error_message),
                      ![id].completed_at = t,
                      ![id].runtime_seconds = runtime,
                      ![id].error_message = error_message]

CompleteExperimentExps(exps, id, t, runtime, error_message, commitOk) ==
    IF CompleteRaises(exps, id, commitOk)
    THEN exps
    ELSE [exps EXCEPT ![id].status = CompleteStatus(error_message),
                      ![id].completed_at = t,
                      ![id].runtime_seconds = runtime,
                      ![id].error_message = error_message]

\* A completion that keeps one row only, dropping the rows stored before.
CompleteExperimentResultsReplacing(exps, res, id, payload, error_message, commitOk) ==
    IF ~CompleteRaises(exps, id, commitOk) /\ SavesResult(payload, error_message)
    THEN <<Result(id, payload)>>
    ELSE res

CompleteExperimentResults(exps, res, id, payload, error_message, commitOk) ==
    IF ~CompleteRaises(exps, id, commitOk) /\ SavesResult(payload, error_message)
    THEN Append(res, Result(id, payload))
    ELSE res

\* ------------------------------------------------------------ environment
\* What the installation provides. qiskit: "full" (the whole import block of
\* qaoa_solver.py succeeds), "partial" (Aer and the names used in annotations
\* are bound, a later import of the block fails), "none" (the first import
\* fails, nothing is bound). eagerAnnotations: whether the interpreter
\* evaluates `-> PauliSumOp` when the method is defined.
\* (only looked at when qiskit is "none").
Envs == {e \in [pyqubo : BOOLEAN, neal : BOOLEAN, qiskit : {"full", "partial", "none"},
                serviceImportError : BOOLEAN, eagerAnnotations : BOOLEAN] :
            e.qiskit # "none" => e.eagerAnnotations}

\* The installation the tracker-only specification runs in.
FullEnv == [pyqubo |-> TRUE, neal |-> TRUE, qiskit |-> "full",
            serviceImportError |-> FALSE, eagerAnnotations |-> TRUE]

PYQUBO_AVAILABLE == env.pyqubo
QISKIT_AVAILABLE == env.qiskit = "full"
AerBound == env.qiskit # "none"

\* Importing app.services.qaoa_solver: with qiskit absent the annotation
\* PauliSumOp is an unbound name when the class body runs.
QaoaModuleImport ==
    IF env.qiskit = "none" /\ env.eagerAnnotations THEN "NameError" ELSE "ok"

\* optimize.py lines 18-20: the two service imports.
ServiceImport ==
    IF env.serviceImportError THEN "ImportError" ELSE QaoaModuleImport

\* optimize.py line 21 / 25.
QUANTUM_AVAILABLE == ServiceImport = "ok"

\* optimize.py line 26 calls logger.warning, line 31 imports logger.
LoggerBoundEarly == TRUE

LoggerBoundAtWarning == FALSE

\* Whether app.routes.optimize finishes importing, so that requests are served.
RouteModuleLoads ==
    \/ ServiceImport = "ok"
    \/ ServiceImport = "ImportError" /\ LoggerBoundAtWarning

\* ---------------------------------------------------------- solver adapters
PyquboMissing == "PyQUBO is not available"
NealMissing == "Neal is not available"
QiskitMissing == "Qiskit is not available"
AerUnbound == "name 'Aer' is not defined"
UnavailableErrors == {PyquboMissing, NealMissing, QiskitMissing, AerUnbound}

NoResult == [status |-> None, error |-> None, weights |-> None]
ErrorResult(msg) == [status |-> "error", error |-> msg, weights |-> None]
OptimalResult(w) == [status |-> "optimal", error |-> None, weights |-> w]

\* ClassicalOptimizer.solve: the whole body is inside try/except.
ClassicalSolve(ps, fault) ==
    IF fault # None THEN ErrorResult(fault)
    ELSE IF ps \notin {"infeasible", "unbounded"} THEN OptimalResult("backend")
    ELSE [status |-> "failed", error |-> "Problem status: " \o ps, weights |-> None]

\* QUBOGenerator.build_qubo raises: the PyQUBO check, or any failure re-raised.
BuildQuboRaises(buildFault) ==
    IF ~PYQUBO_AVAILABLE THEN PyquboMissing ELSE buildFault

\* QUBOGenerator.solve_qubo: the import of neal is inside the try block.
SolveQubo(fault, w) ==
    IF ~env.neal THEN ErrorResult(NealMissing)
    ELSE IF fault # None THEN ErrorResult(fault)
    ELSE OptimalResult(w)

\* QAOASolver.__init__ uses Aer; solve_qaoa checks QISKIT_AVAILABLE before
\* its try block and raises ImportError.
QaoaRaisesNever == None

QaoaRaises ==
    IF ~AerBound THEN AerUnbound
    ELSE IF ~QISKIT_AVAILABLE THEN QiskitMissing
    ELSE None

SolveQaoa(fault, w) ==
    IF fault # None THEN ErrorResult(fault) ELSE OptimalResult(w)

\* MockQUBOGenerator.solve_qubo / MockQAOASolver.solve_qaoa: random weights.
MockSolve == OptimalResult("mock")

\* Lines 101-140 of run_optimization_task: what the solver branch leaves in
\* `result`, the exception it lets through (exc), and how the call of the
\* adapter itself ended (adapter; None when it was not reached).
Solved(r) == [exc |-> None, result |-> r, adapter |-> r.status]
Raised(msg, adapter) == [exc |-> msg, result |-> NoResult, adapter |-> adapter]

RunSolver(solver, ps, buildFault, fault, w) ==
    IF solver = "classical" THEN Solved(ClassicalSolve(ps, fault))
    ELSE IF ~QUANTUM_AVAILABLE THEN Solved(MockSolve)
    ELSE IF BuildQuboRaises(buildFault) # None
         THEN Raised(BuildQuboRaises(buildFault), None)
    ELSE IF solver = "qubo" THEN Solved(SolveQubo(fault, w))
    ELSE IF QaoaRaises # None THEN Raised(QaoaRaises, "raised")
    ELSE Solved(SolveQaoa(fault, w))

\* if result and result['status'] in ['optimal', 'completed'] and
\*    result['weights'] is not None
Succeeded(r) == r.status \in {"optimal", "completed"} /\ r.weights # None

\* calculate_portfolio_composition returns {} when no weight exceeds 1e-6
\* (np.max of an empty array raises inside its try), and the job then reads
\* composition['selected_assets'].
CompositionKeyError == "'selected_assets'"
CompositionNeverRaises(w) == FALSE
CompositionRaises(w) == w = "allzero"

\* result.get('error', 'Optimization failed')
ErrorMsgOf(r) == IF r.error = None THEN "Optimization failed" ELSE r.error

CommitFailed == "commit failed"

IdleJob == [pc |-> "idle", solver |-> None, start_time |-> NoTime, exc |-> None,
            exc_at |-> None, fault |-> None, result |-> NoResult,
            adapter |-> None, outcome |-> None]

\* A tracker call as its caller sees it: the arguments, whether the commit
\* went through, whether the call raised; bit flips at every call.
NoCall == [op |-> "none", id |-> 0, error_message |-> None, payload |-> EmptyDict,
           commitOk |-> TRUE, raised |-> FALSE, bit |-> 0]

Call(op, id, error_message, payload, commitOk, raised) ==
    [op |-> op, id |-> id, error_message |-> error_message, payload |-> payload,
     commitOk |-> commitOk, raised |-> raised, bit |-> 1 - lastCall.bit]

\* No pure function is being evaluated.
NoCalc == [op |-> "none"]

\* ------------------------------------------------- the tracker API (Spec)
Ids == 1..MaxExperiments
ApiErrorMessages == {None, "", "boom"}
ApiPayloads == {EmptyDict, "backend"}
ApiRuntimes == {1}

Init ==
    /\ experiments = <<>>
    /\ results = <<>>
    /\ now = 0
    /\ lastCall = NoCall
    /\ env = FullEnv
    /\ jobs = [i \in Ids |-> IdleJob]
    /\ calc = NoCalc

Tick ==
    /\ now < MaxTime
    /\ now' = now + 1
    /\ UNCHANGED <<experiments, results, lastCall, env, jobs, calc>>

CreateExperiment ==
    \E commitOk \in BOOLEAN :
        /\ Len(experiments) < MaxExperiments
        /\ experiments' = CreateExperimentOp(experiments, commitOk)
        /\ lastCall' = Call("create", IF commitOk THEN Len(experiments) + 1 ELSE 0,
                            None, EmptyDict, commitOk, ~commitOk)
        /\ UNCHANGED <<results, now, env, jobs, calc>>

StartExperiment ==
    \E id \in Ids, commitOk \in BOOLEAN :
        /\ experiments' = StartExperimentOp(experiments, id, now, commitOk)
        /\ lastCall' = Call("start", id, None, EmptyDict, commitOk, FALSE)
        /\ UNCHANGED <<results, now, env, jobs, calc>>

CompleteExperiment ==
    \E id \in Ids, payload \in ApiPayloads, runtime \in ApiRuntimes,
       error_message \in ApiErrorMessages, commitOk \in BOOLEAN :
        /\ SavesResult(payload, error_message) => Len(results) < MaxResults
        /\ experiments' = CompleteExperimentExps(experiments, id, now, runtime,
                                                 error_message, commitOk)
        /\ results' = CompleteExperimentResults(experiments, results, id, payload,
                                                error_message, commitOk)
        /\ lastCall' = Call("complete", id, error_message, payload, commitOk,
                            CompleteRaises(experiments, id, commitOk))
        /\ UNCHANGED <<now, env, jobs, calc>>

\* get_experiment_results: the first Result row of the experiment, or None.
GetExperimentResultsOp(res, id) ==
    LET rows == {k \in DOMAIN res : res[k].experiment_id = id} IN
    IF rows = {} THEN None
    ELSE res[CHOOSE k \in rows : \A m \in rows : k <= m].payload

\* A lookup: it reads the tables and writes nothing.
GetExperimentResults ==
    \E id \in Ids :
        /\ lastCall' = Call("get_experiment_results", id, None,
                            GetExperimentResultsOp(results, id), TRUE, FALSE)
        /\ UNCHANGED <<experiments, results, now, env, jobs, calc>>

Next ==
    \/ Tick
    \/ CreateExperiment
    \/ StartExperiment
    \/ CompleteExperiment
    \/ GetExperimentResults

Spec == Init /\ [][Next]_vars

\* --------------------------------------- requests and jobs (SpecJob)
ExcMessages == {"", "boom"}
Faults == {None} \cup ExcMessages
BuildFaults == {None, "boom"}
LoadFailures == {"Dataset not found", ""}
ProblemStatuses == {"optimal", "infeasible", "unbounded"}
DecodedWeights == {"backend", "allzero"}

InitJob ==
    /\ experiments = <<>>
    /\ results = <<>>
    /\ now = 0
    /\ lastCall = NoCall
    /\ env \in Envs
    /\ jobs = [i \in Ids |-> IdleJob]
    /\ calc = NoCalc

\* POST /run: create the experiment, then add the background task.
RunOptimization ==
    \E solver \in SolverTypes, commitOk \in BOOLEAN :
        /\ RouteModuleLoads
        /\ Len(experiments) < MaxExperiments
        /\ experiments' = CreateExperimentOp(experiments, commitOk)
        /\ jobs' = IF commitOk
                   THEN [jobs EXCEPT ![Len(experiments) + 1] =
                            [IdleJob EXCEPT !.pc = "start", !.solver = solver]]
                   ELSE jobs
        /\ UNCHANGED <<results, now, lastCall, env, calc>>

\* tracker.start_experiment(experiment_id); start_time = time.time()
JobStart(id) ==
    /\ jobs[id].pc = "start"
    /\ \E commitOk \in BOOLEAN :
        experiments' = StartExperimentOp(experiments, id, now, commitOk)
    /\ jobs' = [jobs EXCEPT ![id].pc = "load", ![id].start_time = now]
    /\ UNCHANGED <<results, now, lastCall, env, calc>>

\* Lines 85-94: the dataset query, load_dataset and the risk model.
JobLoad(id) ==
    /\ jobs[id].pc = "load"
    /\ \E failure \in {None} \cup LoadFailures :
        jobs' = IF failure = None
                THEN [jobs EXCEPT ![id].pc = "solve"]
                ELSE [jobs EXCEPT ![id].pc = "handler", ![id].exc = failure,
                                  ![id].exc_at = "load"]
    /\ UNCHANGED <<experiments, results, now, lastCall, env, calc>>

\* Lines 98-140: the solver branch.
JobSolve(id) ==
    /\ jobs[id].pc = "solve"
    /\ \E ps \in ProblemStatuses, buildFault \in BuildFaults, fault \in Faults,
          w \in DecodedWeights :
        LET r == RunSolver(jobs[id].solver, ps, buildFault, fault, w) IN
        jobs' = IF r.exc # None
                THEN [jobs EXCEPT ![id].pc = "handler", ![id].exc = r.exc,
                                  ![id].exc_at = "solve", ![id].adapter = r.adapter]
                ELSE [jobs EXCEPT ![id].pc = "finish", ![id].result = r.result,
                                  ![id].adapter = r.adapter,
                                  ![id].fault = IF r.result.status = "error"
                                                THEN r.result.error ELSE None]
    /\ UNCHANGED <<experiments, results, now, lastCall, env, calc>>

\* Lines 143-184: metrics, composition and the complete_experiment call of
\* the try body. An exception here reaches the handler as well.
JobFinish(id) ==
    /\ jobs[id].pc = "finish"
    /\ \E commitOk \in BOOLEAN :
        LET r == jobs[id].result
            ok == Succeeded(r)
            badComposition == ok /\ CompositionRaises(r.weights)
            payload == IF ok THEN r.weights ELSE EmptyDict
            msg == IF ok THEN None ELSE ErrorMsgOf(r)
            runtime == now - jobs[id].start_time
        IN
        IF badComposition
        THEN /\ jobs' = [jobs EXCEPT ![id].pc = "handler",
                                     ![id].exc = CompositionKeyError,
                                     ![id].exc_at = "finish"]
             /\ UNCHANGED <<experiments, results>>
        ELSE /\ experiments' = CompleteExperimentExps(experiments, id, now, runtime,
                                                      msg, commitOk)
             /\ results' = CompleteExperimentResults(experiments, results, id,
                                                     payload, msg, commitOk)
             /\ jobs' = IF CompleteRaises(experiments, id, commitOk)
                        THEN [jobs EXCEPT ![id].pc = "handler",
                                          ![id].exc = CommitFailed,
                                          ![id].exc_at = "finish"]
                        ELSE [jobs EXCEPT ![id].pc = "done",
                                          ![id].outcome = "returned"]
    /\ UNCHANGED <<now, lastCall, env, calc>>

\* Lines 186-190: except Exception as e: complete_experiment(id, {}, runtime, str(e))
JobHandler(id) ==
    /\ jobs[id].pc = "handler"
    /\ \E commitOk \in BOOLEAN :
        LET runtime == now - jobs[id].start_time IN
        /\ experiments' = CompleteExperimentExps(experiments, id, now, runtime,
                                                 jobs[id].exc, commitOk)
        /\ results' = CompleteExperimentResults(experiments, results, id, EmptyDict,
                                                jobs[id].exc, commitOk)
        /\ jobs' = [jobs EXCEPT ![id].pc = "done",
                                ![id].outcome =
                                    IF CompleteRaises(experiments, id, commitOk)
                                    THEN "raised" ELSE "returned"]
    /\ UNCHANGED <<now, lastCall, env, calc>>

JobStep(id) == JobStart(id) \/ JobLoad(id) \/ JobSolve(id) \/ JobFinish(id) \/ JobHandler(id)

NextJob ==
    \/ RunOptimization
    \/ \E id \in Ids : JobStart(id)
    \/ \E id \in Ids : JobLoad(id)
    \/ \E id \in Ids : JobSolve(id)
    \/ \E id \in Ids : JobFinish(id)
    \/ \E id \in Ids : JobHandler(id)

SpecJob == InitJob /\ [][NextJob]_vars

\* A dispatched background task runs each of its steps.
FairJob == SpecJob /\ \A id \in Ids : WF_vars(JobStep(id))

\* ------------------------------------------- the pure functions (SpecCalc)
\* Numbers are exact fractions; a vector is its numerators over one common
\* positive denominator. Indices start at 0 as in the source.
Rat(n, d) == [num |-> n, den |-> d]
Vec(nums, den) == [nums |-> nums, den |-> den]

\* The 1e-6 of the constraint checks.
Tolerance == Rat(1, 1000000)

RECURSIVE SumTo(_, _)
SumTo(f, k) == IF k < 0 THEN 0 ELSE f[k] + SumTo(f, k - 1)

\* np.sum(weights)
NpSum(w) == SumTo(w.nums, Cardinality(DOMAIN w.nums) - 1)

\* total = np.sum(weights); weights / total if total > 0 else zeros_like
normalize_weights(weights) ==
    LET total == NpSum(weights) IN
    IF total > 0
    THEN Vec(weights.nums, total)
    ELSE Vec([i \in DOMAIN weights.nums |-> 0], 1)

\* A grid that stops one step short of its end: step = stop / num.
LinspaceNoEndpoint(stop, num) ==
    Vec([j \in 0..(num - 1) |-> j * stop.num], num * stop.den)

\* np.linspace(0, stop, num): step = stop / (num - 1), y[j] = j * step
Linspace(stop, num) ==
    Vec([j \in 0..(num - 1) |-> j * stop.num], (num - 1) * stop.den)

\* build_qubo: x[(i, j)] for i in range(n_assets), j in range(discretization + 1)
BinaryVariables(n_assets, discretization) ==
    {<<i, j>> : i \in 0..(n_assets - 1), j \in 0..discretization}

\* build_qubo: weight_levels = np.linspace(0, max_weight, discretization + 1)
WeightLevels(max_weight, discretization) == Linspace(max_weight, discretization + 1)

\* The variable_mapping build_qubo returns.
VariableMapping(n_assets, discretization, max_weight) ==
    [assets |-> n_assets, discretization |-> discretization,
     weight_levels |-> WeightLevels(max_weight, discretization)]

\* No level variable of the asset is set: weights[i] stays 0.
NoLevel == 0 - 1

\* The weights the two decoders fill in before normalising: weight_levels[j]
\* for the level picked, 0 where none was.
LevelWeights(levels, vm) ==
    Vec([i \in 0..(vm.assets - 1) |->
            IF levels[i] = NoLevel THEN 0 ELSE vm.weight_levels.nums[levels[i]]],
        vm.weight_levels.den)

\* _decode_to_weights, inner loop: the first j with x_i_j == 1, then break.
RECURSIVE DecodeLevel(_, _, _, _)
DecodeLevel(decoded_solution, vm, i, j) ==
    IF j > vm.discretization THEN NoLevel
    ELSE IF decoded_solution[<<i, j>>] = 1 THEN j
    ELSE DecodeLevel(decoded_solution, vm, i, j + 1)

\* _decode_to_weights: the weights array when the loops end.
DecodedLevelWeights(decoded_solution, vm) ==
    LevelWeights([i \in 0..(vm.assets - 1) |->
                     DecodeLevel(decoded_solution, vm, i, 0)], vm)

_decode_to_weights(decoded_solution, vm) ==
    normalize_weights(DecodedLevelWeights(decoded_solution, vm))

\* _bitstring_to_weights, both loops: bit_index advances only past a bit
\* that is not '1'; the break leaves it where the '1' was found.
RECURSIVE BitstringLevels(_, _, _, _, _)
BitstringLevels(bitstring, vm, i, j, st) ==
    IF i >= vm.assets THEN st.levels
    ELSE IF j > vm.discretization
    THEN BitstringLevels(bitstring, vm, i + 1, 0, st)
    ELSE IF st.bit_index < Cardinality(DOMAIN bitstring)
            /\ bitstring[st.bit_index] = 1
    THEN BitstringLevels(bitstring, vm, i + 1, 0, [st EXCEPT !.levels[i] = j])
    ELSE BitstringLevels(bitstring, vm, i, j + 1,
                         [st EXCEPT !.bit_index = @ + 1])

\* _bitstring_to_weights: the weights array when the loops end.
BitstringLevelWeights(bitstring, vm) ==
    LevelWeights(
        BitstringLevels(bitstring, vm, 0, 0,
                        [bit_index |-> 0,
                         levels |-> [i \in 0..(vm.assets - 1) |-> NoLevel]]),
        vm)

_bitstring_to_weights(bitstring, vm) ==
    normalize_weights(BitstringLevelWeights(bitstring, vm))

\* The inputs of a request: Constraints and the number of assets loaded.
AssetCounts == 1..MaxAssets
Discretizations == 1..MaxDiscretization
MaxWeights == {Rat(1, 2), Rat(1, 1)}
Budgets == {Rat(1, 2), Rat(1, 1)}
Bits == {0, 1}

\* ClassicalOptimizer.solve: weights.value of a solved problem satisfies
\* weights.sum() == budget, weights <= max_weight and weights >= 0.
ClassicalValues(n_assets, budget, max_weight) ==
    LET den == 2 * budget.den * max_weight.den IN
    {w \in {Vec(f, den) : f \in [0..(n_assets - 1) -> 0..den]} :
        /\ NpSum(w) * budget.den = budget.num * den
        /\ \A i \in 0..(n_assets - 1) :
               w.nums[i] * max_weight.den <= max_weight.num * den}

InitCalc ==
    /\ experiments = <<>>
    /\ results = <<>>
    /\ now = 0
    /\ lastCall = NoCall
    /\ env = FullEnv
    /\ jobs = [i \in Ids |-> IdleJob]
    /\ calc = NoCalc

NotCalc == UNCHANGED <<experiments, results, now, lastCall, env, jobs>>

\* ClassicalOptimizer.solve, the optimal branch: normalize_weights(weights.value)
CalcClassicalSolve ==
    /\ calc.op = "none"
    /\ \E n_assets \in AssetCounts, budget \in Budgets, max_weight \in MaxWeights :
        \E value \in ClassicalValues(n_assets, budget, max_weight) :
            calc' = [op |-> "classical", assets |-> n_assets, budget |-> budget,
                     max_weight |-> max_weight, value |-> value,
                     status |-> "optimal", weights |-> normalize_weights(value)]
    /\ NotCalc

\* QUBOGenerator.solve_qubo on the sample the annealer returns.
CalcSolveQubo ==
    /\ calc.op = "none"
    /\ \E n_assets \in AssetCounts, discretization \in Discretizations,
          budget \in Budgets, max_weight \in MaxWeights :
        \E sample \in [BinaryVariables(n_assets, discretization) -> Bits] :
            LET vm == VariableMapping(n_assets, discretization, max_weight) IN
            calc' = [op |-> "qubo", assets |-> n_assets, budget |-> budget,
                     max_weight |-> max_weight, variable_mapping |-> vm,
                     sample |-> sample, status |-> "optimal",
                     decoded |-> DecodedLevelWeights(sample, vm),
                     weights |-> _decode_to_weights(sample, vm)]
    /\ NotCalc

\* QAOASolver.solve_qaoa on the most probable bitstring.
CalcSolveQaoa ==
    /\ calc.op = "none"
    /\ \E n_assets \in AssetCounts, discretization \in Discretizations,
          budget \in Budgets, max_weight \in MaxWeights :
        \E bitstring \in [0..(n_assets * (discretization + 1) - 1) -> Bits] :
            LET vm == VariableMapping(n_assets, discretization, max_weight) IN
            calc' = [op |-> "qaoa", assets |-> n_assets, budget |-> budget,
                     max_weight |-> max_weight, variable_mapping |-> vm,
                     bitstring |-> bitstring, status |-> "optimal",
                     decoded |-> BitstringLevelWeights(bitstring, vm),
                     weights |-> _bitstring_to_weights(bitstring, vm)]
    /\ NotCalc

\* QUBOGenerator.build_qubo: the variables and the grid it creates.
CalcBuildQubo ==
    /\ calc.op = "none"
    /\ \E n_assets \in AssetCounts, discretization \in Discretizations,
          max_weight \in MaxWeights :
        calc' = [op |-> "build_qubo", assets |-> n_assets,
                 discretization |-> discretization, max_weight |-> max_weight,
                 x |-> BinaryVariables(n_assets, discretization),
                 weight_levels |-> WeightLevels(max_weight, discretization)]
    /\ NotCalc


\* ---- QAOASolver._qubo_to_ising
\* A QUBO coefficient map is a function from pairs (i, j) to a coefficient.
\* Hamiltonian coefficients are kept times 4, so that coeff / 2 and
\* coeff / 4 stay whole numbers.
QuboKeys == {<<0, 0>>, <<0, 1>>, <<1, 1>>}
QuboCoefficients == {0 - 1, 1, 2}
QuboMatrices ==
    UNION {[keys -> QuboCoefficients] : keys \in (SUBSET QuboKeys) \ {{}}}

\* variables = set(); for (i, j) in keys: add(i), add(j); n_vars = len(variables)
QuboVariables(qubo_matrix) ==
    {k[1] : k \in DOMAIN qubo_matrix} \cup {k[2] : k \in DOMAIN qubo_matrix}

\* pauli_str[i] = 'Z' on a list of n_vars characters: IndexError beyond it.
IsingRaises(qubo_matrix) ==
    \E v \in QuboVariables(qubo_matrix) :
        v >= Cardinality(QuboVariables(qubo_matrix))

RECURSIVE SumOver(_, _)
SumOver(f, keys) ==
    IF keys = {} THEN 0
    ELSE LET k == CHOOSE k \in keys : TRUE IN f[k] + SumOver(f, keys \ {k})

\* Diagonal: (Z_i, coeff / 2). Off-diagonal: (Z_i Z_j, coeff / 4).
PauliTerm(key, coeff) ==
    IF key[1] = key[2]
    THEN [qubits |-> {key[1]}, coeff4 |-> 2 * coeff]
    ELSE [qubits |-> {key[1], key[2]}, coeff4 |-> coeff]

\* The pauli_list without its constant, and the constant sum(values) / 4.
_qubo_to_ising(qubo_matrix) ==
    [terms |-> [key \in DOMAIN qubo_matrix |-> PauliTerm(key, qubo_matrix[key])],
     constant4 |-> SumOver(qubo_matrix, DOMAIN qubo_matrix)]

\* ---- ExperimentTracker.create_experiment: results_hash
\* JSON values are kept as their JSON text; a dict is the sequence of its
\* (key, value) items in insertion order.
KeyOrder == <<"budget", "constraints", "dataset_id", "discretization", "num_reads",
              "random_seed", "shots", "solver_params", "solver_type">>

Keys(items) == {items[n][1] : n \in DOMAIN items}
Item(items, key) == items[CHOOSE n \in DOMAIN items : items[n][1] = key]

\* json.dumps without sort_keys: the items in insertion order.
InsertionOrder(items) == items

\* json.dumps(..., sort_keys=True): the items ordered by key.
SortKeys(items) ==
    LET present == SelectSeq(KeyOrder, LAMBDA key : key \in Keys(items)) IN
    [n \in 1..Len(present) |-> Item(items, present[n])]

NestedKeys == {"constraints", "solver_params"}

\* json.dumps(hash_data, sort_keys=True): nested dicts are sorted as well.
JsonDumps(hash_data) ==
    SortKeys([n \in DOMAIN hash_data |->
                 IF hash_data[n][1] \in NestedKeys
                 THEN <<hash_data[n][1], SortKeys(hash_data[n][2])>>
                 ELSE hash_data[n]])

\* hashlib.md5(text).hexdigest(): one digest per text (no two of the texts
\* compared here collide).
Md5(text) == <<"md5", text>>

\* Lines 28-35 of create_experiment.
ResultsHash(dataset_id, solver_type, constraints, solver_params, random_seed) ==
    Md5(JsonDumps(<< <<"dataset_id", dataset_id>>, <<"solver_type", solver_type>>,
                     <<"constraints", constraints>>,
                     <<"solver_params", solver_params>>,
                     <<"random_seed", random_seed>> >>))

\* The two orders of a two-key dict.
Orders(a, b) == {<<a, b>>, <<b, a>>}

DatasetIds == {"1", "2"}
RandomSeeds == {"null", "1", "2"}
ConstraintDicts ==
    UNION {Orders(<<"budget", b>>, <<"discretization", "10">>) : b \in {"0.5", "1.0"}}
SolverParamDicts == Orders(<<"num_reads", "1000">>, <<"shots", "1024">>)

HashArgs ==
    [dataset_id : DatasetIds, solver_type : {"qubo"}, constraints : ConstraintDicts,
     solver_params : SolverParamDicts, random_seed : RandomSeeds]

HashOf(a) ==
    ResultsHash(a.dataset_id, a.solver_type, a.constraints, a.solver_params,
                a.random_seed)

\* ---- QUBOGenerator.solve_qubo: the sampler and its best sample
\* The raw energy the sampler reports for a sample: sum of Q[i, j] * x_i * x_j.
QuboEnergy(qubo_matrix, x) ==
    SumOver([k \in DOMAIN qubo_matrix |-> qubo_matrix[k] * x[k[1]] * x[k[2]]],
            DOMAIN qubo_matrix)

Offsets == {0, 1}

\* sampler.sample_qubo(qubo_matrix, num_reads=num_reads): one sample per read,
\* each with its energy.
Responses(qubo_matrix) ==
    UNION {[1..num_reads ->
               {[sample |-> x, energy |-> QuboEnergy(qubo_matrix, x)] :
                    x \in [QuboVariables(qubo_matrix) -> Bits]}] :
           num_reads \in 1..MaxReads}

\* The sample read first, whatever its energy.
ResponseHead(response) == response[1]

\* response.first: the sample of lowest energy, the earliest read among equals.
ResponseFirst(response) ==
    response[CHOOSE n \in DOMAIN response :
                \A m \in DOMAIN response :
                    \/ response[n].energy < response[m].energy
                    \/ response[n].energy = response[m].energy /\ n <= m]

\* Lines 140-162 of solve_qubo: best_sample, best_energy and the result.
SolveQuboBest(offset, response) ==
    LET best_sample == ResponseFirst(response).sample
        best_energy == ResponseFirst(response).energy + offset
    IN  [status |-> "optimal", energy |-> best_energy,
         binary_solution |-> best_sample,
         solver_info |-> [best_energy |-> best_energy]]

\* ---- calculate_cvar
\* A returns matrix has one row per period and one column per asset.
CvarAssets == 1..2
ReturnValues == {0 - 1, 0, 1}
CvarWeights == {0, 1, 2}
ConfidenceLevels == {99, 95, 50, 25}

\* portfolio_returns = np.dot(returns, weights)
PortfolioReturns(returns, weights) ==
    [t \in DOMAIN returns |->
        SumOver([i \in DOMAIN weights |-> returns[t][i] * weights[i]], DOMAIN weights)]

\* The k-th smallest entry (k from 0) of a series.
Kth(series, k) ==
    CHOOSE v \in {series[t] : t \in DOMAIN series} :
        /\ Cardinality({t \in DOMAIN series : series[t] < v}) <= k
        /\ Cardinality({t \in DOMAIN series : series[t] <= v}) > k

\* 100 * np.percentile(series, q), linear interpolation between the two
\* order statistics around position q / 100 * (len - 1).
Percentile100(series, q) ==
    LET last == Cardinality(DOMAIN series) - 1
        below == (q * last) \div 100
        above == IF below < last THEN below + 1 ELSE last
    IN  100 * Kth(series, below)
            + (Kth(series, above) - Kth(series, below)) * ((q * last) % 100)

\* The periods at or above the VaR.
UpperTail(series, var100) == {t \in DOMAIN series : 100 * series[t] >= var100}

\* portfolio_returns <= var
LowerTail(series, var100) == {t \in DOMAIN series : 100 * series[t] <= var100}

\* var = np.percentile(portfolio_returns, (1 - confidence_level) * 100);
\* cvar = portfolio_returns[portfolio_returns <= var].mean()
calculate_cvar(returns, weights, confidence_level) ==
    LET portfolio_returns == PortfolioReturns(returns, weights)
        var100 == Percentile100(portfolio_returns, 100 - confidence_level)
        tail == LowerTail(portfolio_returns, var100)
    IN  Rat(SumOver(portfolio_returns, tail), Cardinality(tail))

\* ---- ClassicalOptimizer.solve: the problem handed to the solver
\* Candidate weight vectors, negative entries included.
CandidateValues(n_assets, budget, max_weight) ==
    LET den == 2 * budget.den * max_weight.den IN
    {Vec(f, den) : f \in [0..(n_assets - 1) -> (0 - den)..den]}

\* Lines 26-56 with max_assets unset: the variable is declared nonneg=True,
\* then weights.sum() == budget, weights <= max_weight and, unless short
\* selling is allowed, weights >= 0.
ClassicalFeasible(w, budget, max_weight, allow_short_selling) ==
    /\ \A i \in DOMAIN w.nums : w.nums[i] >= 0
    /\ NpSum(w) * budget.den = budget.num * w.den
    /\ \A i \in DOMAIN w.nums : w.nums[i] * max_weight.den <= max_weight.num * w.den
    /\ ~allow_short_selling => \A i \in DOMAIN w.nums : w.nums[i] >= 0

\* ---- QUBOGenerator.build_qubo: the Hamiltonian H and its compiled QUBO
penalty_strength == 10

MeanReturns(n_assets) == [0..(n_assets - 1) -> {0, 1}]
CovMatrices(n_assets) ==
    {[p \in (0..(n_assets - 1)) \X (0..(n_assets - 1)) |->
         IF p[1] = p[2] THEN 1 ELSE c] : c \in {0, 1}}
RiskAversions == {1, 2}

\* constraints.get('max_assets'): absent (None) or an integer.
MaxAssetsValues ==
    {[set |-> FALSE, value |-> 0]}
        \cup {[set |-> TRUE, value |-> v] : v \in 0..MaxAssets}

\* `if max_assets and max_assets < n_assets`: None and 0 are both falsy.
CardinalityApplies(max_assets, n_assets) ==
    max_assets.set /\ max_assets.value # 0 /\ max_assets.value < n_assets

\* `if max_assets is not None and max_assets < n_assets`.
CardinalityAppliesWhenSet(max_assets, n_assets) ==
    max_assets.set /\ max_assets.value < n_assets

\* All coefficients are kept as integers: H is multiplied by the square of
\* the denominators of the weight levels and of the budget.
HScale(weight_levels, budget) ==
    weight_levels.den * weight_levels.den * budget.den * budget.den

\* strength * (sum_u a[u] * x[u] - c) ** 2 expanded with x * x = x: the
\* coefficient of x[u] * x[v].
SquaredCoefficient(a, c, strength, u, v) ==
    strength * a[u] * a[v] + (IF u = v THEN 0 - 2 * strength * c * a[u] ELSE 0)

\* Lines 51-54, the return term: - mean_returns[i] * weight_levels[j] * x[(i, j)].
ReturnCoefficient(mean_returns, weight_levels, budget, u, v) ==
    IF u = v
    THEN 0 - mean_returns[u[1]] * weight_levels.nums[u[2]]
                 * weight_levels.den * budget.den * budget.den
    ELSE 0

\* Lines 57-61, the risk term.
RiskCoefficient(risk_aversion, cov_matrix, weight_levels, budget, u, v) ==
    risk_aversion * cov_matrix[<<u[1], v[1]>>]
        * weight_levels.nums[u[2]] * weight_levels.nums[v[2]]
        * budget.den * budget.den

\* Lines 67-69: one constraint per asset, sum_j x[(i, j)] - 1.
OneLevelCoefficient(n_assets, weight_levels, budget, u, v) ==
    SumTo([i \in 0..(n_assets - 1) |->
              SquaredCoefficient([w \in {u, v} |-> IF w[1] = i THEN 1 ELSE 0], 1,
                                 penalty_strength * HScale(weight_levels, budget),
                                 u, v)],
          n_assets - 1)

\* Lines 72-78: sum weight_levels[j] * x[(i, j)] - budget.
BudgetCoefficient(weight_levels, budget, u, v) ==
    SquaredCoefficient([w \in {u, v} |-> weight_levels.nums[w[2]] * budget.den],
                       budget.num * weight_levels.den, penalty_strength, u, v)

\* Lines 81-88: the number of set variables with j >= 1, minus max_assets.
CardinalityCoefficient(max_assets, n_assets, weight_levels, budget, u, v) ==
    IF CardinalityApplies(max_assets, n_assets)
    THEN SquaredCoefficient([w \in {u, v} |-> IF w[2] >= 1 THEN 1 ELSE 0],
                            max_assets.value,
                            penalty_strength * HScale(weight_levels, budget), u, v)
    ELSE 0

PenaltyCoefficient(p, u, v) ==
    OneLevelCoefficient(p.assets, p.weight_levels, p.budget, u, v)
        + BudgetCoefficient(p.weight_levels, p.budget, u, v)
        + CardinalityCoefficient(p.max_assets, p.assets, p.weight_levels,
                                 p.budget, u, v)

\* The constants of the three squares.
PenaltyOffset(p) ==
    p.assets * penalty_strength * HScale(p.weight_levels, p.budget)
        + penalty_strength * (p.budget.num * p.weight_levels.den)
                           * (p.budget.num * p.weight_levels.den)
        + (IF CardinalityApplies(p.max_assets, p.assets)
           THEN penalty_strength * HScale(p.weight_levels, p.budget)
                    * p.max_assets.value * p.max_assets.value
           ELSE 0)

HCoefficient(p, u, v) ==
    ReturnCoefficient(p.mean_returns, p.weight_levels, p.budget, u, v)
        + RiskCoefficient(p.risk_aversion, p.cov_matrix, p.weight_levels,
                          p.budget, u, v)
        + PenaltyCoefficient(p, u, v)

\* model.to_qubo(): one key per pair of variables, holding the coefficient
\* of their product, and the constant of H as the offset.
\* The a-th variable created by the loops of lines 40-42.
VariableAt(p, a) == <<a \div (p.discretization + 1), a % (p.discretization + 1)>>

QuboPairs(p) ==
    LET count == p.assets * (p.discretization + 1) IN
    {<<VariableAt(p, q[1]), VariableAt(p, q[2])>> :
        q \in {q \in (0..(count - 1)) \X (0..(count - 1)) : q[1] <= q[2]}}

ToQubo(p) ==
    [qubo |-> [k \in QuboPairs(p) |->
                  IF k[1] = k[2] THEN HCoefficient(p, k[1], k[2])
                  ELSE HCoefficient(p, k[1], k[2]) + HCoefficient(p, k[2], k[1])],
     offset |-> PenaltyOffset(p)]

\* The part of the QUBO that comes from the penalty terms.
PenaltyQubo(p) ==
    [k \in QuboPairs(p) |->
        IF k[1] = k[2] THEN PenaltyCoefficient(p, k[1], k[2])
        ELSE PenaltyCoefficient(p, k[1], k[2]) + PenaltyCoefficient(p, k[2], k[1])]

\* ---- MetricsCalculator.compare_portfolios
metrics_to_compare == <<"expected_return", "volatility", "sharpe_ratio", "cvar_95">>
MetricNames == {metrics_to_compare[k] : k \in DOMAIN metrics_to_compare}
MetricValues == {1, 2}

SolverNames == <<"classical", "qubo", "qaoa", "mock">>
PortfolioNames == {SolverNames[k] : k \in 1..MaxPortfolios}

\* A portfolio: its name (the key of the dict) and, when it has the key
\* 'metrics', the metrics it holds.
Portfolio ==
    {[name |-> n, has_metrics |-> FALSE, metrics |-> <<>>] : n \in PortfolioNames}
        \cup UNION {{[name |-> n, has_metrics |-> TRUE, metrics |-> f] :
                        n \in PortfolioNames, f \in [S -> MetricValues]} :
                    S \in SUBSET MetricNames}

\* The dicts of named portfolios, in insertion order.
PortfolioDicts ==
    UNION {{ps \in [1..k -> Portfolio] :
               \A a \in 1..k, b \in 1..k : a # b => ps[a].name # ps[b].name} :
           k \in 0..MaxPortfolios}

\* Lines 100-103: values, the (solver, value) items in insertion order.
ValuesItems(portfolios, metric) ==
    LET has(k) == /\ portfolios[k].has_metrics
                  /\ metric \in DOMAIN portfolios[k].metrics
        keep == SelectSeq([k \in 1..Len(portfolios) |-> k], has)
    IN [k \in 1..Len(keep) |->
           <<portfolios[keep[k]].name, portfolios[keep[k]].metrics[metric]>>]

AscendingAlways(metric) == FALSE

\* Line 106: metric in ['expected_return', 'sharpe_ratio'].
HigherIsBetter(metric) == metric \in {"expected_return", "sharpe_ratio"}

\* sorted(values.items(), key=lambda x: x[1], reverse=...): a stable sort,
\* equal values keep their insertion order in both directions.
InsertItem(ranked, item, reverse) ==
    LET before(e) == IF reverse THEN item[2] > e[2] ELSE item[2] < e[2]
        later == {k \in 1..Len(ranked) : before(ranked[k])}
        at == IF later = {} THEN Len(ranked) + 1
              ELSE CHOOSE k \in later : \A m \in later : k <= m
    IN SubSeq(ranked, 1, at - 1) \o <<item>> \o SubSeq(ranked, at, Len(ranked))

RECURSIVE SortedItems(_, _)
SortedItems(items, reverse) ==
    IF items = <<>> THEN <<>>
    ELSE InsertItem(SortedItems(SubSeq(items, 1, Len(items) - 1), reverse),
                    items[Len(items)], reverse)

Ranked(portfolios, metric) ==
    SortedItems(ValuesItems(portfolios, metric), HigherIsBetter(metric))

compare_portfolios(portfolios) ==
    LET compared == {m \in MetricNames : ValuesItems(portfolios, m) # <<>>}
        best_performer == [m \in compared |-> Ranked(portfolios, m)[1][1]]
    IN [rankings |-> [m \in compared |-> Ranked(portfolios, m)],
        summary |-> [m \in compared |-> ValuesItems(portfolios, m)],
        best_performer |-> best_performer,
        overall_best |-> IF "sharpe_ratio" \in compared
                         THEN best_performer["sharpe_ratio"] ELSE None]

\* ---- ExperimentTracker.check_reproducibility
ResultsHashes == {"h1", "h2"}

\* The experiments table: rows in id order, each with its hash and status.
ExperimentTables ==
    UNION {[1..k -> [results_hash : ResultsHashes, status : Statuses]] :
           k \in 0..MaxExperiments}

\* A filter on the hash alone.
MatchingHash(table, results_hash) ==
    {k \in DOMAIN table : table[k].results_hash = results_hash}

\* .filter(Experiment.results_hash == results_hash)
\* .filter(Experiment.status == "completed")
MatchingCompleted(table, results_hash) ==
    {k \in DOMAIN table : /\ table[k].results_hash = results_hash
                          /\ table[k].status = "completed"}

\* .first() of a query without ORDER BY: any one matching row, or None (the
\* empty set here).
check_reproducibility(table, results_hash) ==
    IF MatchingCompleted(table, results_hash) = {} THEN {{}}
    ELSE {{[id |-> k, results_hash |-> table[k].results_hash,
            status |-> table[k].status]} :
          k \in MatchingCompleted(table, results_hash)}

\* QAOASolver._qubo_to_ising on a coefficient map.
CalcQuboToIsing ==
    /\ calc.op = "none"
    /\ \E qubo_matrix \in QuboMatrices :
        calc' = IF IsingRaises(qubo_matrix)
                THEN [op |-> "_qubo_to_ising", qubo_matrix |-> qubo_matrix,
                      raised |-> TRUE]
                ELSE [op |-> "_qubo_to_ising", qubo_matrix |-> qubo_matrix,
                      raised |-> FALSE,
                      hamiltonian |-> _qubo_to_ising(qubo_matrix)]
    /\ NotCalc

\* Two create_experiment calls: the hash each one stores.
CalcResultsHash ==
    /\ calc.op = "none"
    /\ \E a \in HashArgs, b \in HashArgs :
        calc' = [op |-> "results_hash", a |-> a, b |-> b,
                 hash_a |-> HashOf(a), hash_b |-> HashOf(b)]
    /\ NotCalc

\* QUBOGenerator.solve_qubo: the reads of the sampler and what is returned.
CalcSampleQubo ==
    /\ calc.op = "none"
    /\ \E qubo_matrix \in QuboMatrices, offset \in Offsets :
        \E response \in Responses(qubo_matrix) :
            calc' = [op |-> "sample_qubo", qubo_matrix |-> qubo_matrix,
                     offset |-> offset, response |-> response,
                     result |-> SolveQuboBest(offset, response)]
    /\ NotCalc

\* calculate_cvar on one returns matrix and weight vector, at each level.
CalcCvar ==
    /\ calc.op = "none"
    /\ \E periods \in 1..MaxPeriods, n_assets \in CvarAssets :
        \E returns \in [0..(periods - 1) -> [0..(n_assets - 1) -> ReturnValues]],
           weights \in [0..(n_assets - 1) -> CvarWeights] :
            calc' = [op |-> "calculate_cvar", returns |-> returns, weights |-> weights,
                     portfolio_returns |-> PortfolioReturns(returns, weights),
                     cvar |-> [c \in ConfidenceLevels |->
                                  calculate_cvar(returns, weights, c)]]
    /\ NotCalc

\* ClassicalOptimizer.solve: whether a weight vector is feasible for the
\* problem it builds.
CalcClassicalProblem ==
    /\ calc.op = "none"
    /\ \E n_assets \in AssetCounts, budget \in Budgets, max_weight \in MaxWeights,
          allow_short_selling \in BOOLEAN :
        \E w \in CandidateValues(n_assets, budget, max_weight) :
            calc' = [op |-> "classical_problem", budget |-> budget,
                     max_weight |-> max_weight,
                     allow_short_selling |-> allow_short_selling, w |-> w,
                     feasible |-> ClassicalFeasible(w, budget, max_weight,
                                                    allow_short_selling)]
    /\ NotCalc

\* QUBOGenerator.build_qubo, then the energy of one binary assignment.
CalcQuboEnergy ==
    /\ calc.op = "none"
    /\ \E n_assets \in AssetCounts, discretization \in Discretizations,
          budget \in Budgets, max_weight \in MaxWeights,
          max_assets \in MaxAssetsValues, risk_aversion \in RiskAversions :
        \E mean_returns \in MeanReturns(n_assets),
           cov_matrix \in CovMatrices(n_assets) :
            LET p == [assets |-> n_assets, discretization |-> discretization,
                      weight_levels |-> WeightLevels(max_weight, discretization),
                      budget |-> budget, max_assets |-> max_assets,
                      mean_returns |-> mean_returns, cov_matrix |-> cov_matrix,
                      risk_aversion |-> risk_aversion]
            IN \E compiled \in {ToQubo(p)}, penalties \in {PenaltyQubo(p)} :
               \E x \in [BinaryVariables(n_assets, discretization) -> Bits] :
                calc' = [op |-> "qubo_energy", problem |-> p, x |-> x,
                         penalty |-> QuboEnergy(penalties, x) + PenaltyOffset(p),
                         energy |-> QuboEnergy(compiled.qubo, x) + compiled.offset]
    /\ NotCalc

\* MetricsCalculator.compare_portfolios on a dict of named portfolios.
CalcComparePortfolios ==
    /\ calc.op = "none"
    /\ \E portfolios \in PortfolioDicts :
        calc' = [op |-> "compare_portfolios", portfolios |-> portfolios,
                 comparison |-> compare_portfolios(portfolios)]
    /\ NotCalc

\* ExperimentTracker.check_reproducibility on a table of experiments.
CalcCheckReproducibility ==
    /\ calc.op = "none"
    /\ \E table \in ExperimentTables, results_hash \in ResultsHashes :
        \E returned \in check_reproducibility(table, results_hash) :
            calc' = [op |-> "check_reproducibility", table |-> table,
                     results_hash |-> results_hash, returned |-> returned]
    /\ NotCalc

\* The call returns; the next one starts from scratch.
CalcReturn ==
    /\ calc.op # "none"
    /\ calc' = NoCalc
    /\ NotCalc

NextCalc ==
    \/ CalcClassicalSolve
    \/ CalcSolveQubo
    \/ CalcSolveQaoa
    \/ CalcBuildQubo
    \/ CalcQuboToIsing
    \/ CalcResultsHash
    \/ CalcSampleQubo
    \/ CalcCvar
    \/ CalcClassicalProblem
    \/ CalcQuboEnergy
    \/ CalcComparePortfolios
    \/ CalcCheckReproducibility
    \/ CalcReturn

SpecCalc == InitCalc /\ [][NextCalc]_vars


\* ------------------------------------------------------------ properties
Terminal == {"completed", "failed"}
Rank(st) == IF st = "pending" THEN 0 ELSE IF st = "running" THEN 1 ELSE 2

\* This step is the tracker call op on id (Spec).
CalledNow(op, id) ==
    lastCall'.bit # lastCall.bit /\ lastCall'.op = op /\ lastCall'.id = id

\* The request asked for a quantum strategy whose library is not there.
BackendMissing(solver) ==
    /\ solver \in {"qubo", "qaoa"}
    /\ \/ ~QUANTUM_AVAILABLE
       \/ ~PYQUBO_AVAILABLE
       \/ solver = "qubo" /\ ~env.neal
       \/ solver = "qaoa" /\ ~QISKIT_AVAILABLE

\* The job got as far as the solver branch.
ReachedSolver(j) ==
    j.pc = "finish" \/ (j.pc \in {"handler", "done"} /\ j.exc_at # "load")

\* C1: whatever the sequence of complete_experiment calls, no experiment id
\* ever has more than one Result row.
C1_AtMostOneResult ==
    \A id \in DOMAIN experiments : Cardinality(ResultsOf(id)) <= 1

\* C2: a status never moves backward in pending < running < {completed,
\* failed}, and a completed or failed status never changes again.
C2_StatusMovesForward ==
    [][\A id \in DOMAIN experiments :
          /\ Rank(experiments'[id].status) >= Rank(experiments[id].status)
          /\ experiments[id].status \in Terminal
                => experiments'[id].status = experiments[id].status]_vars

\* C3: a completed experiment has exactly one Result; a pending, running or
\* failed experiment has none.
C3_ResultsOneToOne ==
    \A id \in DOMAIN experiments :
        Cardinality(ResultsOf(id)) =
            IF experiments[id].status = "completed" THEN 1 ELSE 0

\* C4: a complete_experiment call that returns, made on a running experiment:
\* with an error message passed (anything but None) the status becomes failed,
\* the message is recorded and no Result is added; without one the status
\* becomes completed and exactly one Result built from the payload is added.
C4_CompleteContract ==
    [][\A id \in DOMAIN experiments :
          (CalledNow("complete", id) /\ ~lastCall'.raised
              /\ experiments[id].status = "running")
          => IF lastCall'.error_message # None
             THEN /\ experiments'[id].status = "failed"
                  /\ experiments'[id].error_message = lastCall'.error_message
                  /\ results' = results
             ELSE /\ experiments'[id].status = "completed"
                  /\ results' = Append(results, Result(id, lastCall'.payload))]_vars

\* C5: a job in which loading or the solver branch raised, and whose
\* complete_experiment call in the except handler went through, has ended by
\* returning, with its experiment failed, the exception's message recorded
\* and no Result. (The claim also covers the jobs whose handler call raised.)
C5_ExceptionsBecomeFailed ==
    \A id \in Ids :
        (/\ jobs[id].pc = "done"
         /\ jobs[id].exc_at \in {"load", "solve"}
         /\ experiments[id].completed_at # NoTime)
        => /\ jobs[id].outcome = "returned"
           /\ experiments[id].status = "failed"
           /\ experiments[id].error_message = jobs[id].exc
           /\ ResultsOf(id) = {}

\* C6: start_experiment never raises; on a pending experiment (the commit
\* going through) it sets running and the start time; on a running experiment
\* it leaves the status and the recorded start time as they were.
C6_StartContract ==
    [][\A id \in DOMAIN experiments :
          CalledNow("start", id)
          => /\ ~lastCall'.raised
             /\ (experiments[id].status = "pending" /\ lastCall'.commitOk)
                   => /\ experiments'[id].status = "running"
                      /\ experiments'[id].started_at = now
             /\ experiments[id].status = "running"
                   => /\ experiments'[id].status = "running"
                      /\ experiments'[id].started_at = experiments[id].started_at]_vars

C9_AdaptersNeverRaise ==
    \A id \in Ids : jobs[id].adapter # "raised"

\* C9 amended: an adapter raises only when it is the QAOA adapter and Qiskit
\* is unavailable; every other failure, a missing neal included, comes back
\* as a result with status error, the message and no weights.
C9_OnlyQaoaRaises ==
    \A id \in Ids :
        LET j == jobs[id] IN
        j.adapter # None
        => /\ j.adapter = "raised" <=> (j.solver = "qaoa" /\ ~QISKIT_AVAILABLE)
           /\ j.adapter = "raised" => j.exc \in {QiskitMissing, AerUnbound}
           /\ j.adapter = "error"
                => /\ j.result.status = "error"
                   /\ j.result.error # None
                   /\ j.result.weights = None
           /\ (j.solver = "qubo" /\ ~env.neal)
                => /\ j.adapter = "error"
                   /\ j.result.error = NealMissing
           /\ j.adapter \in {"optimal", "failed"} => j.result.status = j.adapter

\* C9 witness: solve_qubo met a missing neal and returned the error result.
C9_Witness ==
    \E id \in Ids :
        /\ jobs[id].solver = "qubo"
        /\ jobs[id].adapter = "error"
        /\ jobs[id].result = ErrorResult(NealMissing)

C18_OneJobPerFreshId ==
    [][/\ Len(experiments') >= Len(experiments)
       /\ Len(experiments') > Len(experiments) =>
            /\ Len(experiments') = Len(experiments) + 1
            /\ jobs[Len(experiments')].pc = "idle"
            /\ jobs'[Len(experiments')].pc = "start"
       /\ \A id \in Ids :
            /\ (jobs'[id].pc = "start" /\ jobs[id].pc # "start") =>
                    /\ jobs[id].pc = "idle"
                    /\ id \notin DOMAIN experiments
                    /\ id = Len(experiments')
                    /\ \A other \in Ids \ {id} : jobs'[other] = jobs[other]
            /\ jobs[id].pc # "idle" => jobs'[id].pc # "idle"
            /\ (jobs'[id].pc # "idle") <=> (id \in DOMAIN experiments')]_vars

\* Two requests were served: two ids, each with its own job, both running.
C18_Witness ==
    /\ Len(experiments) = MaxExperiments
    /\ \A id \in Ids : jobs[id].pc = "solve"

\* The job of experiment a takes a step.
Stepped(a) == jobs[a].pc # "idle" /\ jobs'[a] # jobs[a]

\* C19: a step of the job of experiment a, its start_experiment and
\* complete_experiment calls included, changes neither the row, nor the
\* Results, nor the job of any other experiment b, whatever the interleaving.
C19_JobsIndependent ==
    [][\A a \in Ids :
          Stepped(a) =>
              /\ \A b \in DOMAIN experiments \ {a} : experiments'[b] = experiments[b]
              /\ \A b \in Ids \ {a} : jobs'[b] = jobs[b]
              /\ \A k \in DOMAIN results : results'[k] = results[k]
              /\ \A k \in DOMAIN results' \ DOMAIN results :
                     results'[k].experiment_id = a]_vars

\* Both jobs ran interleaved to their ends, one completed and one failed.
C19_Witness ==
    /\ Len(experiments) = MaxExperiments
    /\ \A id \in Ids : jobs[id].pc = "done"
    /\ experiments[1].status = "completed"
    /\ experiments[1].started_at # NoTime
    /\ experiments[MaxExperiments].status = "failed"
    /\ Cardinality(ResultsOf(1)) = 1
    /\ ResultsOf(MaxExperiments) = {}

\* ------------------------------------------------ properties of SpecCalc
SolverCalcs == {"classical", "qubo", "qaoa"}
ReturnedOptimal == calc.op \in SolverCalcs /\ calc.status = "optimal"

Abs(n) == IF n < 0 THEN 0 - n ELSE n

\* |a - b| <= 1e-6 for two fractions.
Close(a, b) ==
    Abs(a.num * b.den - b.num * a.den) * Tolerance.den <= Tolerance.num * a.den * b.den

\* a <= b + 1e-6 for two fractions.
AtMost(a, b) ==
    a.num * b.den * Tolerance.den <= (b.num * Tolerance.den + Tolerance.num * b.den) * a.den

Weight(w, i) == Rat(w.nums[i], w.den)
SameWeights(v, w) ==
    /\ DOMAIN v.nums = DOMAIN w.nums
    /\ \A i \in DOMAIN v.nums : v.nums[i] * w.den = w.nums[i] * v.den

\* C11: every weight vector a solver returns with status optimal sums to
\* the budget within 1e-6, for every budget > 0.
C11_WeightsSumToBudget ==
    ReturnedOptimal => Close(Rat(NpSum(calc.weights), calc.weights.den), calc.budget)

\* C12: with short selling disallowed, every weight a solver returns with
\* status optimal lies between 0 and max_weight_per_asset + 1e-6.
C12_WeightsWithinBounds ==
    ReturnedOptimal =>
        \A i \in DOMAIN calc.weights.nums :
            /\ calc.weights.nums[i] >= 0
            /\ AtMost(Weight(calc.weights, i), calc.max_weight)

\* The sample sets exactly one level variable of every asset.
OneHot(sample, vm) ==
    \A i \in 0..(vm.assets - 1) :
        Cardinality({j \in 0..vm.discretization : sample[<<i, j>>] = 1}) = 1

\* C13: decoding the one-hot assignment that selects level j* for each
\* asset yields exactly weight_levels[j*] as the weight of that asset.
C13_RoundTrip ==
    (calc.op = "qubo" /\ OneHot(calc.sample, calc.variable_mapping)) =>
        \A i \in 0..(calc.assets - 1) :
            LET vm == calc.variable_mapping
                jstar == CHOOSE j \in 0..vm.discretization : calc.sample[<<i, j>>] = 1
            IN  /\ Weight(calc.weights, i).num * vm.weight_levels.den
                       = vm.weight_levels.nums[jstar] * calc.weights.den

\* The assignment x_{i,j} = bit at position i * (discretization + 1) + j.
AssignmentOf(bitstring, vm) ==
    [v \in BinaryVariables(vm.assets, vm.discretization) |->
        bitstring[v[1] * (vm.discretization + 1) + v[2]]]

\* C14: _bitstring_to_weights returns, for every bitstring of length
\* n * (discretization + 1), the weights _decode_to_weights returns for the
\* assignment x_{i,j} = bit i * (discretization + 1) + j.
C14_SameDecoding ==
    calc.op = "qaoa" =>
        SameWeights(calc.weights,
                    _decode_to_weights(AssignmentOf(calc.bitstring, calc.variable_mapping),
                                       calc.variable_mapping))

RECURSIVE ProdOver(_, _)
ProdOver(z, qubits) ==
    IF qubits = {} THEN 1
    ELSE LET q == CHOOSE q \in qubits : TRUE IN z[q] * ProdOver(z, qubits \ {q})

\* Four times the value of the Hamiltonian at the spins z.
IsingEnergy4(hamiltonian, z) ==
    SumOver([k \in DOMAIN hamiltonian.terms |->
                hamiltonian.terms[k].coeff4 * ProdOver(z, hamiltonian.terms[k].qubits)],
            DOMAIN hamiltonian.terms)
    + hamiltonian.constant4

\* The two ways a bit corresponds to a spin: 0 -> +1, 1 -> -1 and its mirror.
SpinMaps == {[b \in Bits |-> 1 - 2 * b], [b \in Bits |-> 2 * b - 1]}

\* C15: the Hamiltonian _qubo_to_ising produces has, at the spin assignment
\* corresponding to x, the QUBO energy at x, for every binary assignment x.
C15_EnergyPreserved ==
    (calc.op = "_qubo_to_ising" /\ ~calc.raised) =>
        \E spin \in SpinMaps :
            \A x \in [QuboVariables(calc.qubo_matrix) -> Bits] :
                4 * QuboEnergy(calc.qubo_matrix, x)
                    = IsingEnergy4(calc.hamiltonian,
                                   [v \in QuboVariables(calc.qubo_matrix) |-> spin[x[v]]])

\* Two dicts hold the same items, in whatever order.
SameDict(d, e) == {d[n] : n \in DOMAIN d} = {e[n] : n \in DOMAIN e}
SameButSeed(a, b) ==
    /\ a.dataset_id = b.dataset_id
    /\ a.solver_type = b.solver_type
    /\ SameDict(a.constraints, b.constraints)
    /\ SameDict(a.solver_params, b.solver_params)

\* C16: two create_experiment calls with identical dataset, strategy,
\* constraints, solver parameters and seed, the dict keys in any order, store
\* the same hash; two calls that differ only in the seed store different ones.
C16_HashReproducible ==
    (calc.op = "results_hash" /\ SameButSeed(calc.a, calc.b)) =>
        (calc.hash_a = calc.hash_b <=> calc.a.random_seed = calc.b.random_seed)

\* Same parameters and seed, keys in a different order, same hash.
C16_Witness ==
    /\ calc.op = "results_hash"
    /\ SameButSeed(calc.a, calc.b)
    /\ calc.a.random_seed = calc.b.random_seed
    /\ calc.a.constraints # calc.b.constraints
    /\ calc.a.solver_params # calc.b.solver_params
    /\ calc.hash_a = calc.hash_b

\* C20: build_qubo creates exactly n * (discretization + 1) binary variables,
\* one per (asset, level) pair, and a grid of discretization + 1 levels with
\* level j = j * max_weight_per_asset / discretization.
C20_VariablesAndGrid ==
    calc.op = "build_qubo" =>
        /\ Cardinality(calc.x) = calc.assets * (calc.discretization + 1)
        /\ calc.x = (0..(calc.assets - 1)) \X (0..calc.discretization)
        /\ DOMAIN calc.weight_levels.nums = 0..calc.discretization
        /\ \A j \in 0..calc.discretization :
               calc.weight_levels.nums[j] * calc.discretization * calc.max_weight.den
                   = j * calc.max_weight.num * calc.weight_levels.den

\* discretization 2, max_weight_per_asset 1.0, 2 assets: grid [0, 0.5, 1], 6 variables.
C20_Witness ==
    /\ calc.op = "build_qubo"
    /\ calc.assets = 2
    /\ calc.discretization = 2
    /\ calc.max_weight = Rat(1, 1)
    /\ Cardinality(calc.x) = 6
    /\ SameWeights(calc.weight_levels, Vec([j \in 0..2 |-> j], 2))

\* C21: solve_qubo returns a sample that was drawn and whose raw QUBO energy
\* is at most that of every sample drawn; the energy it reports is that raw
\* energy plus the offset, and solver_info carries the same value.
C21_LowestEnergySample ==
    calc.op = "sample_qubo" =>
        LET best == calc.result.binary_solution IN
        /\ \E n \in DOMAIN calc.response : calc.response[n].sample = best
        /\ \A n \in DOMAIN calc.response :
               QuboEnergy(calc.qubo_matrix, best)
                   <= QuboEnergy(calc.qubo_matrix, calc.response[n].sample)
        /\ calc.result.energy = QuboEnergy(calc.qubo_matrix, best) + calc.offset
        /\ calc.result.solver_info.best_energy = calc.result.energy

\* The lowest sample was not the first read, and the offset is not zero.
C21_Witness ==
    /\ calc.op = "sample_qubo"
    /\ Len(calc.response) = MaxReads
    /\ calc.response[MaxReads].energy < calc.response[1].energy
    /\ calc.result.binary_solution = calc.response[MaxReads].sample
    /\ calc.offset # 0

\* a <= b for two fractions with positive denominators.
Leq(a, b) == a.num * b.den <= b.num * a.den

\* The mean of a series.
Mean(series) == Rat(SumOver(series, DOMAIN series), Cardinality(DOMAIN series))

\* C22: for every returns series and weight vector the CVaR at the higher
\* confidence level is at most the CVaR at the lower one (0.99 against 0.95
\* in particular), and the CVaR (at 0.95 in particular) is at most the mean
\* portfolio return whenever the series is not constant.
C22_CvarOrdered ==
    calc.op = "calculate_cvar" =>
        /\ \A c1 \in ConfidenceLevels, c2 \in ConfidenceLevels :
               c1 >= c2 => Leq(calc.cvar[c1], calc.cvar[c2])
        /\ \A c \in ConfidenceLevels :
               Cardinality({calc.portfolio_returns[t] :
                                t \in DOMAIN calc.portfolio_returns}) > 1
                   => Leq(calc.cvar[c], Mean(calc.portfolio_returns))

\* A series with a left tail: the CVaR falls strictly from level to level
\* and lies strictly below the mean.
C22_Witness ==
    /\ calc.op = "calculate_cvar"
    /\ ~Leq(calc.cvar[25], calc.cvar[95])
    /\ ~Leq(Mean(calc.portfolio_returns), calc.cvar[95])
    /\ Leq(calc.cvar[99], calc.cvar[95])

\* C23: a weight vector is feasible for the classical problem exactly when
\* it sums to the budget, every weight is at most max_weight_per_asset and,
\* with short selling disallowed, every weight is at least 0; with short
\* selling allowed a negative weight does not make it infeasible.
C23_ShortSellingUnrestricted ==
    calc.op = "classical_problem" =>
        (calc.feasible <=>
            /\ NpSum(calc.w) * calc.budget.den = calc.budget.num * calc.w.den
            /\ \A i \in DOMAIN calc.w.nums :
                   calc.w.nums[i] * calc.max_weight.den
                       <= calc.max_weight.num * calc.w.den
            /\ calc.allow_short_selling
                   \/ \A i \in DOMAIN calc.w.nums : calc.w.nums[i] >= 0)

\* The weight the decoding rule gives asset i: the level of the lowest level
\* index j whose variable is 1, and 0 when the asset has none.
RuleWeight(x, vm, i) ==
    LET ones == {j \in 0..vm.discretization : x[<<i, j>>] = 1} IN
    IF ones = {} THEN 0
    ELSE vm.weight_levels.nums[CHOOSE j \in ones : \A k \in ones : j <= k]

\* C24: both decoders give every asset, before normalising, the weight level
\* of the lowest level index whose variable is 1 and 0 when it has none, so
\* the variables of the other assets never influence it.
C24_DecodingRule ==
    /\ calc.op = "qubo" =>
           \A i \in 0..(calc.assets - 1) :
               calc.decoded.nums[i] = RuleWeight(calc.sample, calc.variable_mapping, i)
    /\ calc.op = "qaoa" =>
           \A i \in 0..(calc.assets - 1) :
               calc.decoded.nums[i]
                   = RuleWeight(AssignmentOf(calc.bitstring, calc.variable_mapping),
                                calc.variable_mapping, i)

\* The QUBO sampler's decoder alone follows the rule.
C24_QuboDecoderFollowsRule ==
    calc.op = "qubo" =>
        \A i \in 0..(calc.assets - 1) :
            calc.decoded.nums[i] = RuleWeight(calc.sample, calc.variable_mapping, i)

\* The level index an asset with exactly one set variable has selected.
SelectedLevel(x, p, i) == CHOOSE j \in 0..p.discretization : x[<<i, j>>] = 1

OneLevelEach(x, p) ==
    \A i \in 0..(p.assets - 1) :
        Cardinality({j \in 0..p.discretization : x[<<i, j>>] = 1}) = 1

LevelsSumToBudget(x, p) ==
    SumTo([i \in 0..(p.assets - 1) |->
              p.weight_levels.nums[SelectedLevel(x, p, i)]], p.assets - 1)
        * p.budget.den = p.budget.num * p.weight_levels.den

ExactlyMaxAssets(x, p) ==
    Cardinality({i \in 0..(p.assets - 1) : SelectedLevel(x, p, i) >= 1})
        = p.max_assets.value

\* - mu' w + risk_aversion * w' Sigma w for the selected weights, on the
\* scale of the energies.
ObjectiveOf(x, p) ==
    LET w == [i \in 0..(p.assets - 1) |->
                 p.weight_levels.nums[SelectedLevel(x, p, i)]]
        risk == [i \in 0..(p.assets - 1) |->
                    SumTo([k \in 0..(p.assets - 1) |->
                              w[i] * p.cov_matrix[<<i, k>>] * w[k]],
                          p.assets - 1)]
    IN p.budget.den * p.budget.den
           * (p.risk_aversion * SumTo(risk, p.assets - 1)
              - p.weight_levels.den
                    * SumTo([i \in 0..(p.assets - 1) |-> p.mean_returns[i] * w[i]],
                            p.assets - 1))

NotPenalized(x, p) ==
    /\ OneLevelEach(x, p)
    /\ LevelsSumToBudget(x, p)
    /\ (p.max_assets.set /\ p.max_assets.value < p.assets) => ExactlyMaxAssets(x, p)

\* C25: the penalty terms of the QUBO contribute zero at an assignment
\* exactly when every asset has one level variable set, the selected levels
\* sum to the budget and, when max_assets is set and below the number of
\* assets, exactly max_assets assets have a non-zero level; there the energy
\* plus the offset is - mu' w + risk_aversion * w' Sigma w.
C25_PenaltyZeroIffValid ==
    calc.op = "qubo_energy" =>
        /\ calc.penalty = 0 <=> NotPenalized(calc.x, calc.problem)
        /\ NotPenalized(calc.x, calc.problem)
               => calc.energy = ObjectiveOf(calc.x, calc.problem)

\* The same holds for every input whose max_assets is not 0.
C25_HoldsUnlessMaxAssetsZero ==
    (calc.op = "qubo_energy"
        /\ ~(calc.problem.max_assets.set /\ calc.problem.max_assets.value = 0)) =>
        /\ calc.penalty = 0 <=> NotPenalized(calc.x, calc.problem)
        /\ NotPenalized(calc.x, calc.problem)
               => calc.energy = ObjectiveOf(calc.x, calc.problem)

\* An assignment without penalty is reached, with and without the
\* cardinality term.
C25_UnpenalizedReached ==
    /\ calc.op = "qubo_energy"
    /\ calc.penalty = 0
    /\ CardinalityApplies(calc.problem.max_assets, calc.problem.assets)
    /\ calc.energy # 0

\* C26: the classical solver's outcome is one of optimal (with weights),
\* failed (the infeasible or unbounded status as the reason, no weights) and
\* error (the exception's message, no weights); and a job whose solver gave
\* failed or error, and whose complete_experiment call in the try body went
\* through, leaves the experiment failed with that reason.
C26_ClassicalOutcomes ==
    \A id \in Ids :
        LET j == jobs[id] IN
        (j.solver = "classical" /\ j.pc \in {"finish", "done"} /\ j.exc = None)
        => /\ j.result.status \in {"optimal", "failed", "error"}
           /\ j.result.weights # None <=> j.result.status = "optimal"
           /\ j.result.status = "failed"
                => j.result.error \in {"Problem status: infeasible",
                                       "Problem status: unbounded"}
           /\ j.result.status = "error" => j.result.error = j.fault
           /\ (j.pc = "done" /\ j.result.status \in {"failed", "error"})
                => /\ experiments[id].status = "failed"
                   /\ experiments[id].error_message = j.result.error

\* The portfolios of a dict that have a metric.
Having(portfolios, metric) ==
    {k \in 1..Len(portfolios) :
        portfolios[k].has_metrics /\ metric \in DOMAIN portfolios[k].metrics}

\* a is at least as good as b for the metric.
AsGoodAs(metric, a, b) ==
    IF metric \in {"expected_return", "sharpe_ratio"} THEN a >= b ELSE a <= b

C28_RaiseLeavesStateUnchanged ==
    [][\A id \in Ids :
          (CalledNow("complete", id) /\ lastCall'.raised)
              => /\ experiments' = experiments
                 /\ results' = results]_vars

\* The same for the two complete_experiment calls of a job (SpecJob).
C28_JobRaiseLeavesStateUnchanged ==
    [][\A id \in Ids :
          \/ jobs[id].pc = "finish" /\ jobs'[id].exc = CommitFailed
          \/ jobs[id].pc = "handler" /\ jobs'[id].outcome = "raised"
          => /\ experiments' = experiments
             /\ results' = results]_vars

\* C28 witness: the call raised while persisting the completion of a running
\* experiment, which is running still.
C28_Witness ==
    /\ lastCall.op = "complete"
    /\ lastCall.raised
    /\ ~lastCall.commitOk
    /\ lastCall.id \in DOMAIN experiments
    /\ experiments[lastCall.id].status = "running"
    /\ experiments[lastCall.id].completed_at = NoTime

\* The solver of job id returned status optimal with weights that have no
\* entry above 1e-6.
OptimalWithoutAssets(id) ==
    /\ jobs[id].pc = "done"
    /\ Succeeded(jobs[id].result)
    /\ jobs[id].result.weights = "allzero"

C30_OnlyCompletedReturned ==
    calc.op = "check_reproducibility" =>
        \A e \in calc.returned :
            /\ e.id \in DOMAIN calc.table
            /\ calc.table[e.id].results_hash = e.results_hash
            /\ calc.table[e.id].status = e.status
            /\ e.results_hash = calc.results_hash
            /\ e.status = "completed"
            /\ e.status \notin {"pending", "running", "failed"}

\* C30 witness: a failed and a completed experiment share the hash asked
\* for, and the completed one is returned.
C30_Witness ==
    /\ calc.op = "check_reproducibility"
    /\ \E a \in DOMAIN calc.table, b \in DOMAIN calc.table :
           /\ a < b
           /\ calc.table[a] = [results_hash |-> calc.results_hash, status |-> "failed"]
           /\ calc.table[b] = [results_hash |-> calc.results_hash, status |-> "completed"]
           /\ calc.returned = {[id |-> b, results_hash |-> calc.results_hash,
                                status |-> "completed"]}

TypeOK ==
    /\ \A i \in DOMAIN experiments : experiments[i].status \in Statuses
    /\ Len(experiments) <= MaxExperiments
    /\ Len(results) <= MaxResults
    /\ now \in 0..MaxTime
====
